---- MODULE Spec2Model ----
(***************************************************************************)
(* pinamap: the location type-ahead search box (LocationSearch component,  *)
(* app/locationSearch.tsx, kept here as src/unnamed/part_001 lines 1-244), *)
(* the text of its suggestion rows (getDisplayName), the two route         *)
(* handlers POST /api/submit (src/unnamed/part_000) and GET /api/search    *)
(* (api/search/route.ts), and the map view (MemoryMap in panel.tsx with    *)
(* the Panel of layout.tsx).  Each has its own specification: Spec,        *)
(* SpecDisplay, SpecSubmit, SpecSearch and SpecMap; the variables of the   *)
(* other parts stay as they are initially.                                 *)
(*                                                                         *)
(* The component is a single-threaded, event-driven React component.  One  *)
(* action of the model is one run-to-suspension of a handler: a user       *)
(* event handler, a timer callback, or the continuation of an async        *)
(* function after its awaited fetch settles.                               *)
(*                                                                         *)
(* Texts are sequences of characters so that String.prototype.trim is      *)
(* computed, not assumed.                                                  *)
(***************************************************************************)
EXTENDS Integers, Sequences, FiniteSets, TLC

\* ---------------------------------------------------------------- bounds
\* number of onChange events (setTimeout calls) explored
MaxKeystrokes == 2
\* number of fetch() calls explored
MaxRequests == 3
\* number of POST /api/submit requests explored
MaxPosts == 2
\* number of pins the map view's form creates
MaxPins == 1

\* ---------------------------------------------------------------- inputs
\* e.target.value of an onChange event, and place names returned by the API
Texts == { <<>>, <<" ">>, <<"a">>, <<"a", "b">> }

\* suggestions as returned by the suggest endpoint (only mapbox_id is read
\* by the handlers)
Suggestions == { [mapbox_id |-> "m1"], [mapbox_id |-> "m2"] }

\* bodies of a suggest response: data.suggestions
SuggestionLists ==
    { <<>>,
      << [mapbox_id |-> "m1"] >>,
      << [mapbox_id |-> "m2"], [mapbox_id |-> "m1"] >> }

\* features of a retrieve response; name_preferred = <<>> is "absent"
\* (undefined and "" are both falsy for ||)
Features ==
    { [coordinates |-> <<10, 20>>, name |-> <<"a">>, name_preferred |-> <<>>],
      [coordinates |-> <<30, 40>>, name |-> <<"a">>, name_preferred |-> <<"a", "b">>] }

\* bodies of a retrieve response: data.features
FeatureLists ==
    { <<>> } \cup { <<f>> : f \in Features }
             \cup { p \in Features \X Features : p[1].name_preferred # <<>> }

\* ---------------------------------------------------------------- state
VARIABLES
    searchTerm,         \* useState<string>('')
    isSearching,        \* useState<boolean>(false)
    results,            \* useState<SearchBoxSuggestion[]>([])
    showResults,        \* useState<boolean>(false)
    searchDebounceRef,  \* useRef: handle of the last setTimeout, 0 = null
    sessionTokenRef,    \* useRef: current session token
    timers,             \* the runtime's pending timeouts: records [id, query]
    timerCount,         \* number of setTimeout calls so far (handle source)
    inflight,           \* fetches whose promise has not settled:
                        \* records [id, kind, arg, token]
    fetchCount,         \* number of fetch() calls so far; the n-th has id n
    emitted,            \* the onLocationSelect / onTempMarker calls made so far
    lastTyped,          \* history: e.target.value of the latest onChange
    burst,              \* history: onChange events since the timer was last idle
    resultsFrom,        \* history: id of the suggest whose response is now
                        \* stored in results, 0 if none
    resultsToken,       \* history: the session token that suggest carried,
                        \* 0 if none
    answered,           \* history: highest id of a suggest that has settled
    usedTokens,         \* history: tokens carried by the fetches issued so far
    retrieveTokens,     \* history: tokens carried by the retrieves issued so far
    retired,            \* history: usedTokens as it was when a retrieve last
                        \* came back with a feature
    okRetrieves         \* history: retrieve responses that were successful
                        \* and had a feature

network == << inflight, fetchCount, usedTokens, retrieveTokens >>

\* the state of the LocationSearch component and of its timers and fetches
locationSearchVars ==
    << searchTerm, isSearching, results, showResults, searchDebounceRef,
       sessionTokenRef, timers, timerCount, inflight, fetchCount, emitted,
       lastTyped, burst, resultsFrom, resultsToken, answered, usedTokens,
       retrieveTokens, retired, okRetrieves >>

\* one row of the suggestion list (part_001 lines 226-238)
VARIABLES
    candidate,          \* the SearchBoxSuggestion of the row
    displayName         \* the text getDisplayName returned for it,
                        \* <<>> while the row is not rendered

displayVars == << candidate, displayName >>

\* POST /api/submit (part_000 lines 1-126) and the two stores it writes
VARIABLES
    messages,           \* the rows of table 'messages', in insertion order
    blobs,              \* the paths of the objects in storage bucket 'images'
    post,               \* the invocation of POST being served: where it is
                        \* suspended (pc), its request and its imagePath
    response,           \* the response the last finished invocation returned
    postCount           \* number of requests so far; also the uuid source

submitVars == << messages, blobs, post, response, postCount >>

\* GET /api/search (api/search/route.ts), which reads table 'messages'
VARIABLES
    get,                \* the invocation of GET being served: where it is
                        \* suspended (pc) and its receiver parameter
    getResponse,        \* the response the last finished invocation returned
    served              \* history: the receiver and the rows of every 200
                        \* response so far

routeVars == << get, getResponse, served >>

\* the map view: MemoryMap (panel.tsx lines 304-552) with the Panel it
\* renders (layout.tsx lines 136-509) and their calls to the backend, whose
\* table is the variable messages
VARIABLES
    geojsonData,        \* useState<FeatureCollection>: its features
    selectedFeature,    \* useState<Feature | null>: <<>> is null, <<f>> is f
    matchedFeatures,    \* useState<Feature[]>([])
    isLoading,          \* useState<boolean>(false)
    pinMode,            \* useState<boolean>(false)
    searchQuery,        \* useState<string>('')
    tempMarker,         \* useState<[number, number] | null>: <<>> is null
    showForm,           \* Panel: useState(false)
    isSubmitting,       \* Panel: useState(false)
    loadCall,           \* fetch('/api/messages') of the mount effect
    searchCall,         \* fetch('/api/search?receiver=...') of handleSearch,
                        \* with what the suspended handleSearch holds
    createCall,         \* fetch('/api/submit') of handleSubmit
    formData,           \* Panel: useState({message: '', receiver: '',
                        \* image: null})
    markerLocation,     \* Panel: useState<[number, number] | null>(null):
                        \* <<>> is null
    errorMessage,       \* Panel: useState<string | null>(null): "" is null
    imagePreview,       \* Panel: useState<string | null>(null): whether a
                        \* preview is held
    imageCall           \* compressImage of handleImageChange

\* the state of the pin form
formVars == << formData, markerLocation, errorMessage, imagePreview,
              imageCall >>

mapVars == << geojsonData, selectedFeature, matchedFeatures, isLoading,
              pinMode, searchQuery, tempMarker, showForm, isSubmitting,
              loadCall, searchCall, createCall, formVars >>

vars == << locationSearchVars, displayVars, submitVars, routeVars, mapVars >>

\* what the handlers of LocationSearch never touch
outsideLocationSearch == << displayVars, submitVars, routeVars, mapVars >>

\* ---------------------------------------------------------------- helpers
RECURSIVE TrimStart(_)
TrimStart(s) ==
    IF s # <<>> /\ Head(s) = " " THEN TrimStart(Tail(s)) ELSE s

RECURSIVE TrimEnd(_)
TrimEnd(s) ==
    IF s # <<>> /\ s[Len(s)] = " " THEN TrimEnd(SubSeq(s, 1, Len(s) - 1)) ELSE s

TrimIdentity(s) == s

\* String.prototype.trim
Trim(s) == TrimEnd(TrimStart(s))

\* the fetches of one endpoint that have not settled yet
PendingOf(kind) == { r \in inflight : r.kind = kind }

\* generateSessionToken: a random version-4 UUID (122 random bits); modelled
\* as a token that has never been generated before.  Tokens are numbered in
\* order of generation and the ref always holds the latest one.
GenerateSessionToken == sessionTokenRef + 1

ResetSessionTokenStale == sessionTokenRef' = sessionTokenRef

\* resetSessionToken
ResetSessionToken == sessionTokenRef' = GenerateSessionToken

\* the request a fetch() made now would put on the network: the URL is built
\* from the argument and the token held by the ref at the time of the call
Request(kind, arg) ==
    [id |-> fetchCount + 1, kind |-> kind, arg |-> arg,
     token |-> sessionTokenRef]

\* the fetch() of either endpoint
Fetch(kind, arg) ==
    /\ fetchCount < MaxRequests
    /\ fetchCount' = fetchCount + 1
    /\ inflight' = inflight \cup { Request(kind, arg) }
    /\ usedTokens' = usedTokens \cup { sessionTokenRef }
    /\ retrieveTokens' = IF kind = "retrieve"
                         THEN retrieveTokens \cup { sessionTokenRef }
                         ELSE retrieveTokens

\* ---------------------------------------------------------------- init
LocationSearchInit ==
    /\ searchTerm = <<>>
    /\ isSearching = FALSE
    /\ results = <<>>
    /\ showResults = FALSE
    /\ searchDebounceRef = 0
    /\ sessionTokenRef = 1
    /\ timers = {}
    /\ timerCount = 0
    /\ inflight = {}
    /\ fetchCount = 0
    /\ emitted = <<>>
    /\ lastTyped = <<>>
    /\ burst = 0
    /\ resultsFrom = 0
    /\ resultsToken = 0
    /\ answered = 0
    /\ usedTokens = {}
    /\ retrieveTokens = {}
    /\ retired = {}
    /\ okRetrieves = 0

\* no row is being rendered
DisplayIdle ==
    /\ candidate = [name |-> <<"a">>]
    /\ displayName = <<>>

\* both stores empty, no request yet
SubmitInit ==
    /\ messages = <<>>
    /\ blobs = {}
    /\ post = [pc |-> "idle"]
    /\ response = [status |-> 0, error |-> ""]
    /\ postCount = 0

\* no search request yet
RouteInit ==
    /\ get = [pc |-> "idle"]
    /\ getResponse = [status |-> 0, data |-> <<>>]
    /\ served = {}

\* the map view is not mounted
MapIdle ==
    /\ geojsonData = <<>>
    /\ selectedFeature = <<>>
    /\ matchedFeatures = <<>>
    /\ isLoading = FALSE
    /\ pinMode = FALSE
    /\ searchQuery = <<>>
    /\ tempMarker = <<>>
    /\ showForm = FALSE
    /\ isSubmitting = FALSE
    /\ loadCall = [stage |-> "none"]
    /\ searchCall = [stage |-> "none"]
    /\ createCall = [stage |-> "none"]
    /\ formData = [message |-> <<>>, receiver |-> <<>>, image |-> "null"]
    /\ markerLocation = <<>>
    /\ errorMessage = ""
    /\ imagePreview = FALSE
    /\ imageCall = [stage |-> "none"]

Init ==
    /\ LocationSearchInit
    /\ DisplayIdle
    /\ SubmitInit
    /\ RouteInit
    /\ MapIdle

\* ---------------------------------------------------------------- operations
\* fetchSearchSuggestions(query), up to its await (lines 86-98)
FetchSearchSuggestions(query) ==
    IF Trim(query) = <<>>
    THEN /\ results' = <<>>
         /\ showResults' = FALSE
         /\ resultsFrom' = 0
         /\ resultsToken' = 0
         /\ UNCHANGED << isSearching, network >>
    ELSE /\ isSearching' = TRUE
         /\ Fetch("suggest", query)
         /\ UNCHANGED << results, showResults, resultsFrom, resultsToken >>

\* retrieveLocation(mapboxId), up to its await (lines 126-132)
RetrieveLocation(mapboxId) ==
    /\ isSearching' = TRUE
    /\ Fetch("retrieve", mapboxId)
    /\ UNCHANGED << results, showResults, resultsFrom, resultsToken >>

HandleInputChangeNoClear(query) ==
    /\ timerCount < MaxKeystrokes
    /\ searchTerm' = query
    /\ timerCount' = timerCount + 1
    /\ timers' = timers \cup { [id |-> timerCount + 1, query |-> query] }
    /\ searchDebounceRef' = timerCount + 1
    /\ lastTyped' = query
    /\ burst' = IF timers = {} THEN 1 ELSE burst + 1
    /\ UNCHANGED << isSearching, results, showResults, sessionTokenRef,
                    network, emitted, resultsFrom,
                    resultsToken, answered, retired,
                    okRetrieves >>

\* handleInputChange (lines 112-124): clearTimeout of the held handle, then
\* setTimeout of a callback that closes over this event's text
HandleInputChange(query) ==
    /\ timerCount < MaxKeystrokes
    /\ searchTerm' = query
    /\ timerCount' = timerCount + 1
    /\ timers' = { t \in timers : t.id # searchDebounceRef }
                    \cup { [id |-> timerCount + 1, query |-> query] }
    /\ searchDebounceRef' = timerCount + 1
    /\ lastTyped' = query
    /\ burst' = IF timers = {} THEN 1 ELSE burst + 1
    /\ UNCHANGED << isSearching, results, showResults, sessionTokenRef,
                    network, emitted, resultsFrom,
                    resultsToken, answered, retired,
                    okRetrieves >>

\* the timeout callback of line 121 runs: fetchSearchSuggestions(query)
DebounceFire(t) ==
    /\ t \in timers
    /\ timers' = timers \ {t}
    /\ FetchSearchSuggestions(t.query)
    /\ UNCHANGED << searchTerm, searchDebounceRef, sessionTokenRef,
                    timerCount, emitted, lastTyped, burst, answered, retired,
                    okRetrieves >>

Max(a, b) == IF a >= b THEN a ELSE b

\* the continuation of fetchSearchSuggestions after its fetch settles
\* (lines 99-109).  ok = FALSE stands for a rejected fetch, a non-2xx status
\* or a body without a suggestions array: all of them end in the catch.
SuggestResponse(r, ok, suggestions) ==
    /\ r \in PendingOf("suggest")
    /\ inflight' = inflight \ {r}
    /\ IF ok
       THEN /\ results' = suggestions
            /\ showResults' = (Len(suggestions) > 0)
            /\ resultsFrom' = r.id
            /\ resultsToken' = r.token
       ELSE /\ results' = <<>>
            /\ resultsFrom' = 0
            /\ resultsToken' = 0
            /\ UNCHANGED showResults
    /\ isSearching' = FALSE
    /\ answered' = Max(answered, r.id)
    /\ UNCHANGED << searchTerm, searchDebounceRef, sessionTokenRef, timers,
                    timerCount, fetchCount, emitted, lastTyped, burst,
                    usedTokens, retrieveTokens, retired, okRetrieves >>

PlaceNameRaw(feature) == feature.name

\* feature.properties.name_preferred || feature.properties.name (line 145)
PlaceName(feature) ==
    IF feature.name_preferred # <<>> THEN feature.name_preferred
                                     ELSE feature.name

HasFeatureAnyStatus(ok, features) == Len(features) > 0

\* the if of line 137, reached only when response.ok (line 133)
HasFeature(ok, features) == ok /\ Len(features) > 0

\* the continuation of retrieveLocation after its fetch settles
\* (lines 133-155)
RetrieveResponse(r, ok, features) ==
    /\ r \in PendingOf("retrieve")
    /\ inflight' = inflight \ {r}
    /\ IF HasFeature(ok, features)
       THEN /\ emitted' = emitted \o
                    << [event |-> "onLocationSelect",
                        lng |-> features[1].coordinates[1],
                        lat |-> features[1].coordinates[2]],
                       [event |-> "onTempMarker",
                        lng |-> features[1].coordinates[1],
                        lat |-> features[1].coordinates[2]] >>
            /\ searchTerm' = PlaceName(features[1])
            /\ ResetSessionToken
       ELSE UNCHANGED << emitted, searchTerm, sessionTokenRef >>
    /\ isSearching' = FALSE
    /\ showResults' = FALSE
    /\ IF ok /\ Len(features) > 0
       THEN okRetrieves' = okRetrieves + 1 /\ retired' = usedTokens
       ELSE UNCHANGED << okRetrieves, retired >>
    /\ UNCHANGED << results, searchDebounceRef, timers, timerCount,
                    fetchCount, lastTyped, burst, resultsFrom,
                    resultsToken, answered,
                    usedTokens, retrieveTokens >>

\* handleResultClick (lines 158-160); a suggestion can be clicked only
\* while the list is rendered (line 225)
HandleResultClick(suggestion) ==
    /\ showResults
    /\ \E k \in 1..Len(results) : results[k] = suggestion
    /\ RetrieveLocation(suggestion.mapbox_id)
    /\ UNCHANGED << searchTerm, searchDebounceRef, sessionTokenRef, timers,
                    timerCount, emitted, lastTyped, burst, answered, retired,
                    okRetrieves >>

Keys == { "Enter", "Escape" }

HandleKeyDownLast(key) ==
    /\ IF key = "Enter"
       THEN IF Len(results) > 0
            THEN RetrieveLocation(results[Len(results)].mapbox_id)
            ELSE IF Trim(searchTerm) # <<>>
                 THEN FetchSearchSuggestions(searchTerm)
                 ELSE UNCHANGED << isSearching, network, results,
                                   showResults, resultsFrom, resultsToken >>
       ELSE UNCHANGED << isSearching, network, results, showResults,
                         resultsFrom, resultsToken >>
    /\ UNCHANGED << searchTerm, searchDebounceRef, sessionTokenRef, timers,
                    timerCount, emitted, lastTyped, burst, answered, retired,
                    okRetrieves >>

\* handleKeyDown (lines 162-174)
HandleKeyDown(key) ==
    /\ IF key = "Enter"
       THEN IF Len(results) > 0
            THEN RetrieveLocation(results[1].mapbox_id)
            ELSE IF Trim(searchTerm) # <<>>
                 THEN FetchSearchSuggestions(searchTerm)
                 ELSE UNCHANGED << isSearching, network, results,
                                   showResults, resultsFrom, resultsToken >>
       ELSE UNCHANGED << isSearching, network, results, showResults,
                         resultsFrom, resultsToken >>
    /\ UNCHANGED << searchTerm, searchDebounceRef, sessionTokenRef, timers,
                    timerCount, emitted, lastTyped, burst, answered, retired,
                    okRetrieves >>

\* the search button's onClick (line 215); the button is disabled while
\* isSearching (line 216)
HandleButtonClick ==
    /\ ~isSearching
    /\ IF Len(results) > 0
       THEN RetrieveLocation(results[1].mapbox_id)
       ELSE FetchSearchSuggestions(searchTerm)
    /\ UNCHANGED << searchTerm, searchDebounceRef, sessionTokenRef, timers,
                    timerCount, emitted, lastTyped, burst, answered, retired,
                    okRetrieves >>

HandleClickOutsideClear ==
    /\ showResults' = FALSE
    /\ results' = <<>>
    /\ resultsFrom' = 0
    /\ resultsToken' = 0
    /\ UNCHANGED << searchTerm, isSearching, searchDebounceRef,
                    sessionTokenRef, timers, timerCount, network, emitted,
                    lastTyped, burst, answered, retired, okRetrieves >>

\* handleClickOutside (lines 74-78), for a mousedown outside the container
HandleClickOutside ==
    /\ showResults' = FALSE
    /\ UNCHANGED << searchTerm, isSearching, results, searchDebounceRef,
                    sessionTokenRef, timers, timerCount, network, emitted,
                    lastTyped, burst, resultsFrom,
                    resultsToken, answered, retired,
                    okRetrieves >>

\* ---------------------------------------------------------------- events
InputChange ==
    /\ \E query \in Texts : HandleInputChange(query)
    /\ UNCHANGED outsideLocationSearch

Debounce ==
    /\ \E t \in timers : DebounceFire(t)
    /\ UNCHANGED outsideLocationSearch

SuggestSettles ==
    /\ \E r \in inflight, ok \in BOOLEAN, suggestions \in SuggestionLists :
            SuggestResponse(r, ok, suggestions)
    /\ UNCHANGED outsideLocationSearch

RetrieveSettles ==
    /\ \E r \in inflight, ok \in BOOLEAN, features \in FeatureLists :
            RetrieveResponse(r, ok, features)
    /\ UNCHANGED outsideLocationSearch

ResultClick ==
    /\ \E clicked \in Suggestions : HandleResultClick(clicked)
    /\ UNCHANGED outsideLocationSearch

KeyDown ==
    /\ \E key \in Keys : HandleKeyDown(key)
    /\ UNCHANGED outsideLocationSearch

ButtonClick ==
    /\ HandleButtonClick
    /\ UNCHANGED outsideLocationSearch

ClickOutside ==
    /\ HandleClickOutside
    /\ UNCHANGED outsideLocationSearch

Next ==
    \/ InputChange
    \/ Debounce
    \/ SuggestSettles
    \/ RetrieveSettles
    \/ ResultClick
    \/ KeyDown
    \/ ButtonClick
    \/ ClickOutside

Spec == Init /\ [][Next]_vars

TypeOK ==
    /\ searchTerm \in Texts
    /\ isSearching \in BOOLEAN
    /\ results \in SuggestionLists
    /\ showResults \in BOOLEAN
    /\ searchDebounceRef \in 0..MaxKeystrokes
    /\ sessionTokenRef \in 1..(MaxRequests + 1)
    /\ timerCount \in 0..MaxKeystrokes
    /\ fetchCount \in 0..MaxRequests
    /\ Cardinality(inflight) <= MaxRequests
    /\ resultsFrom \in 0..MaxRequests
    /\ answered \in 0..MaxRequests

\* ---------------------------------------------------------------- properties
\* "empty or only whitespace", stated without trim
IsBlank(s) == \A k \in 1..Len(s) : s[k] = " "

\* this step issues exactly this fetch
Issued(kind, arg) ==
    /\ fetchCount' = fetchCount + 1
    /\ inflight' = inflight \cup { Request(kind, arg) }

\* this step issues a fetch to this endpoint
IssuedKind(kind) ==
    /\ fetchCount' = fetchCount + 1
    /\ \E r \in inflight' : r.id = fetchCount' /\ r.kind = kind

\* the fetch issued by this step
NewRequest == CHOOSE r \in inflight' : r.id = fetchCount'

\* C1: when the debounce timer fires, it is the timer armed by the last
\* keystroke and carries that keystroke's text; if that text is not blank
\* exactly one suggest call is issued, for that text, and no timer is left
\* that could issue a second call for the same quiet interval.
C1_DebounceLastWriteWins ==
    [][ \A t \in timers : DebounceFire(t) =>
            /\ t.id = searchDebounceRef
            /\ t.query = lastTyped
            /\ timers' = {}
            /\ IF IsBlank(lastTyped) THEN UNCHANGED << inflight, fetchCount >>
                                     ELSE Issued("suggest", lastTyped) ]_vars

\* two keystrokes in one quiet interval, then the timer fired once and the
\* only call on the network is the suggest for the last text
C1_Witness ==
    /\ burst >= 2
    /\ timerCount = burst
    /\ timers = {}
    /\ ~IsBlank(lastTyped)
    /\ fetchCount = 1
    /\ \E r \in inflight : r.kind = "suggest" /\ r.arg = lastTyped

\* C2: a suggest call issued after a retrieve has succeeded carries a token
\* different from the token of that retrieve and of every call issued
\* before the retrieve succeeded.
C2_FreshTokenAfterRetrieve ==
    [][ IssuedKind("suggest") => NewRequest.token \notin retired ]_vars

C2_Witness ==
    /\ okRetrieves >= 1
    /\ retired # {}
    /\ \E r \in inflight : r.kind = "suggest" /\ r.token \notin retired

\* C3: whenever the token is replaced, no suggest request is in flight and
\* no debounce timer is pending.
C3_NoRotationDuringSuggest ==
    [][ sessionTokenRef' # sessionTokenRef =>
            PendingOf("suggest") = {} /\ timers = {} ]_vars

\* C4: the token changes only in the step that handles a retrieve response
\* which is successful and has at least one feature.
C4_OnlyRetrieveSuccessRotates ==
    [][ sessionTokenRef' # sessionTokenRef =>
            /\ okRetrieves' = okRetrieves + 1
            /\ \E r \in PendingOf("retrieve") : inflight' = inflight \ {r}
      ]_vars

\* a suggest was answered and every later call was a retrieve carrying
\* token 1: one of them came back with a feature and rotated the token, the
\* others came back without one and left it alone
C4_Witness ==
    /\ sessionTokenRef = 2
    /\ okRetrieves = 1
    /\ retrieveTokens = {1}
    /\ inflight = {}
    /\ fetchCount >= 3
    /\ answered = 1

\* C5: no retrieve call is issued with a token that an earlier retrieve
\* call already carried.
C5_OneRetrievePerToken ==
    [][ IssuedKind("retrieve") => NewRequest.token \notin retrieveTokens ]_vars

\* C6: a non-empty displayed list is never the response to a suggest that
\* was fired before another suggest whose response has already arrived.
C6_NoStaleClobber ==
    results # <<>> => resultsFrom >= answered

\* C7: Enter pressed while the panel is not shown and the query is not blank
\* issues a suggest call for the current text (and so no retrieve call).
C7_EnterBypassesDebounce ==
    [][ (HandleKeyDown("Enter") /\ ~showResults /\ ~IsBlank(searchTerm))
            => Issued("suggest", searchTerm) ]_vars

\* C8: with the results visible, a step of Enter is a step of clicking the
\* first suggestion and the other way round: same retrieve call, same state.
C8_EnterIsClickFirst ==
    [][ (showResults /\ Len(results) > 0) =>
            (HandleKeyDown("Enter") <=> HandleResultClick(results[1])) ]_vars

\* the panel shows two suggestions and the retrieve of the first one is
\* the last call issued
C8_Witness ==
    /\ showResults
    /\ Len(results) = 2
    /\ \E r \in inflight : /\ r.id = fetchCount
                           /\ r.kind = "retrieve"
                           /\ r.arg = results[1].mapbox_id
                           /\ r.token = sessionTokenRef

\* the steps in which fetchSearchSuggestions runs with a blank query
FetchBlank ==
    \/ \E t \in timers : IsBlank(t.query) /\ DebounceFire(t)
    \/ Len(results) = 0 /\ IsBlank(searchTerm) /\ HandleButtonClick

\* C9: a suggest for a blank query makes no network call, empties the list
\* and hides the panel; no suggest call for a blank query is ever issued.
C9_BlankQueryNoCall ==
    [][ /\ FetchBlank =>
            /\ UNCHANGED << inflight, fetchCount >>
            /\ results' = <<>>
            /\ showResults' = FALSE
        /\ IssuedKind("suggest") => ~IsBlank(NewRequest.arg) ]_vars

\* a suggest was answered, then a whitespace text was typed and its timer
\* fired: the list is empty, the panel hidden and no second call was made
C9_Witness ==
    /\ timerCount = 2
    /\ timers = {}
    /\ lastTyped = <<" ">>
    /\ fetchCount = 1
    /\ answered = 1
    /\ results = <<>>
    /\ ~showResults

\* C10: after a suggest call completes with a failure or with an empty
\* list, the stored list is empty and showResults is false.
C10_FailureClearsAndHides ==
    [][ \A r \in PendingOf("suggest") :
            (SuggestResponse(r, FALSE, <<>>) \/ SuggestResponse(r, TRUE, <<>>))
                => (results' = <<>> /\ showResults' = FALSE) ]_vars

\* the two callbacks of a retrieve that resolved this feature
Events(feature) ==
    << [event |-> "onLocationSelect",
        lng |-> feature.coordinates[1], lat |-> feature.coordinates[2]],
       [event |-> "onTempMarker",
        lng |-> feature.coordinates[1], lat |-> feature.coordinates[2]] >>

\* C11: the step that handles a successful retrieve response with at least
\* one feature emits exactly one onLocationSelect and one onTempMarker, both
\* with the first feature's coordinates, sets the query text to that
\* feature's preferred name if it has one and to its name otherwise, and
\* hides the panel.
C11_RetrieveSuccessEffects ==
    [][ \A r \in PendingOf("retrieve"), features \in FeatureLists :
            (features # <<>> /\ RetrieveResponse(r, TRUE, features)) =>
                /\ emitted' = emitted \o Events(features[1])
                /\ searchTerm' = IF features[1].name_preferred # <<>>
                                 THEN features[1].name_preferred
                                 ELSE features[1].name
                /\ showResults' = FALSE ]_vars

\* one retrieve came back with the feature that has a preferred name: the
\* two events carry its coordinates and the text, which was not typed, is
\* that preferred name
C11_Witness ==
    /\ okRetrieves = 1
    /\ emitted = << [event |-> "onLocationSelect", lng |-> 30, lat |-> 40],
                    [event |-> "onTempMarker", lng |-> 30, lat |-> 40] >>
    /\ searchTerm = <<"a", "b">>
    /\ lastTyped # searchTerm
    /\ ~showResults

\* C12: the step that handles a retrieve response which failed or has no
\* feature emits nothing, leaves the query text and the token unchanged,
\* hides the panel and clears isSearching.
C12_RetrieveFailureEffects ==
    [][ \A r \in PendingOf("retrieve"), ok \in BOOLEAN,
           features \in FeatureLists :
            ((~ok \/ features = <<>>) /\ RetrieveResponse(r, ok, features)) =>
                /\ UNCHANGED << emitted, searchTerm, sessionTokenRef >>
                /\ showResults' = FALSE
                /\ isSearching' = FALSE ]_vars

\* a retrieve was issued for a shown suggestion and every request has
\* settled without a feature: nothing emitted, first token still in use
C12_Witness ==
    /\ retrieveTokens # {}
    /\ inflight = {}
    /\ okRetrieves = 0
    /\ emitted = <<>>
    /\ sessionTokenRef = 1
    /\ results # <<>>
    /\ ~showResults
    /\ ~isSearching

\* C13: a mousedown outside the component hides the panel and leaves the
\* query text, the token, the stored list, the pending timers and the
\* requests in flight unchanged.
C13_ClickOutsideFrame ==
    [][ HandleClickOutside =>
            /\ showResults' = FALSE
            /\ UNCHANGED << searchTerm, sessionTokenRef, results, timers,
                            inflight >> ]_vars

\* the panel is hidden although a non-empty list is stored and no retrieve
\* was ever issued (only an outside click does that), with a timer pending
\* and a suggest in flight
C13_Witness ==
    /\ ~showResults
    /\ results # <<>>
    /\ retrieveTokens = {}
    /\ timers # {}
    /\ PendingOf("suggest") # {}


\* C22: a keystroke that changes the query text leaves the stored
\* suggestion list empty, and so does the handling of a retrieve response
\* that is ok and has a feature.
C22_CandidatesDiscarded ==
    [][ ( \/ \E query \in Texts :
                 query # searchTerm /\ HandleInputChange(query)
          \/ \E r \in PendingOf("retrieve"), features \in FeatureLists :
                 features # <<>> /\ RetrieveResponse(r, TRUE, features) ) =>
            results' = <<>> ]_vars

\* C23: a retrieve call carries the token that was carried by the suggest
\* call whose response is the stored list the candidate was taken from.
C23_RetrieveInSuggestSession ==
    [][ IssuedKind("retrieve") => NewRequest.token = resultsToken ]_vars

\* C24: when Enter issues a suggest call, no timer stays pending that would
\* issue a suggest call for the same text when it fires.
C24_BypassCancelsTimer ==
    [][ (HandleKeyDown("Enter") /\ IssuedKind("suggest")) =>
            \A t \in timers' : t.query # NewRequest.arg ]_vars

\* C33: isSearching is true in every state in which a suggest or retrieve
\* call is in flight, and false in every state in which none is.
C33_SearchingWhileInFlight ==
    isSearching <=> inflight # {}

\* ================================================================
\* getDisplayName (part_001 lines 176-196): the text of one suggestion row
\* ================================================================

\* the keys of SearchBoxSuggestion.context, and the name each carries here
ContextKeys == { "place", "region", "country" }

ContextName == [place |-> <<"p">>, region |-> <<"r">>, country |-> <<"c">>]

\* context objects: every key may be missing, and a name may be ""
Contexts ==
    { [k \in S |-> [name |-> IF k \in E THEN <<>> ELSE ContextName[k]]] :
          S \in SUBSET ContextKeys, E \in SUBSET ContextKeys }

\* suggestions as getDisplayName sees them: name is always there,
\* name_preferred and context are optional properties (lines 11-29)
Candidates ==
    LET Named == { [name |-> n] : n \in { <<"a">>, <<"a", "b">> } }
        Preferred ==
            Named \cup { [name |-> c.name, name_preferred |-> n] :
                             c \in Named, n \in { <<>>, <<"x">> } }
    IN  Preferred \cup
        { [k \in DOMAIN c \cup { "context" } |->
               IF k = "context" THEN x ELSE c[k]] :
              c \in Preferred, x \in Contexts }

\* obj.key in a condition: the property exists and is not the empty string
Truthy(obj, key) == key \in DOMAIN obj /\ obj[key] # <<>>

\* Array.prototype.join
RECURSIVE Join(_, _)
Join(array, separator) ==
    IF Len(array) = 0 THEN <<>>
    ELSE IF Len(array) = 1 THEN array[1]
    ELSE array[1] \o separator \o Join(Tail(array), separator)

\* context.push(name) when suggestion.context.<key>?.name is truthy
PushName(context, suggestion, key) ==
    IF Truthy(suggestion.context, key) /\ Truthy(suggestion.context[key], "name")
    THEN Append(context, suggestion.context[key].name)
    ELSE context

GetDisplayNameCountryFirst(suggestion) ==
    IF Truthy(suggestion, "name_preferred") THEN suggestion.name_preferred
    ELSE
        LET name == suggestion.name
            context ==
                IF Truthy(suggestion, "context")
                THEN PushName(PushName(PushName(<<>>, suggestion, "country"),
                                       suggestion, "region"),
                              suggestion, "place")
                ELSE <<>>
        IN  IF Len(context) > 0
            THEN name \o <<",", " ">> \o Join(context, <<",", " ">>)
            ELSE name

\* getDisplayName (lines 176-196)
GetDisplayName(suggestion) ==
    IF Truthy(suggestion, "name_preferred") THEN suggestion.name_preferred
    ELSE
        LET name == IF Truthy(suggestion, "name_preferred")
                    THEN suggestion.name_preferred
                    ELSE suggestion.name
            context ==
                IF Truthy(suggestion, "context")
                THEN PushName(PushName(PushName(<<>>, suggestion, "place"),
                                       suggestion, "region"),
                              suggestion, "country")
                ELSE <<>>
        IN  IF Len(context) > 0
            THEN name \o <<",", " ">> \o Join(context, <<",", " ">>)
            ELSE name

\* a suggestion arrives for display
DisplayInit ==
    /\ candidate \in Candidates
    /\ displayName = <<>>
    /\ LocationSearchInit
    /\ SubmitInit
    /\ RouteInit
    /\ MapIdle

\* the row is rendered: {getDisplayName(suggestion)} (line 233)
Render ==
    /\ displayName = <<>>
    /\ displayName' = GetDisplayName(candidate)
    /\ UNCHANGED << candidate, locationSearchVars, submitVars, routeVars,
                    mapVars >>

DisplayNext == Render

SpecDisplay == DisplayInit /\ [][DisplayNext]_vars

\* the context names of a candidate that are there and not empty, in the
\* order place, region, country
PresentContextNames(c) ==
    IF "context" \notin DOMAIN c THEN <<>>
    ELSE LET there(k) == /\ k \in DOMAIN c.context
                         /\ c.context[k].name # <<>>
             name(k) == IF there(k) THEN << c.context[k].name >> ELSE <<>>
         IN  name("place") \o name("region") \o name("country")

\* every name of the list preceded by ", "
RECURSIVE CommaBefore(_)
CommaBefore(names) ==
    IF names = <<>> THEN <<>>
    ELSE <<",", " ">> \o Head(names) \o CommaBefore(Tail(names))

\* C14: a rendered row shows the preferred name when the candidate has a
\* (non-empty) one, whatever its context; otherwise the raw name followed,
\* for each context name that is there (place, region, country, in that
\* order), by ", " and that name -- and by nothing when none is there.
C14_DisplayNameComposition ==
    displayName # <<>> =>
        displayName =
            IF "name_preferred" \in DOMAIN candidate
                   /\ candidate.name_preferred # <<>>
            THEN candidate.name_preferred
            ELSE candidate.name \o CommaBefore(PresentContextNames(candidate))

\* "a" with place "p", no region and country "c" is shown as "a, p, c"
C14_Witness ==
    /\ "name_preferred" \notin DOMAIN candidate
    /\ "context" \in DOMAIN candidate
    /\ DOMAIN candidate.context = { "place", "country" }
    /\ displayName = <<"a", ",", " ", "p", ",", " ", "c">>


\* ================================================================
\* POST /api/submit (part_000 lines 1-126)
\* ================================================================

\* the fields both branches read from the request
Fields == { "message", "receiver", "latitude", "longitude" }

\* a request that carries every field
FullBody ==
    [message |-> <<"h", "i">>, receiver |-> <<"a", "l">>,
     latitude |-> <<"4", "0">>, longitude |-> <<"7">>]

\* request bodies: the full one, and for each field the body without that
\* field and the body in which it is the empty string
Bodies ==
    { FullBody }
        \cup { [k \in Fields \ { f } |-> FullBody[k]] : f \in Fields }
        \cup { [FullBody EXCEPT ![f] = <<>>] : f \in Fields }

\* formData.get('image'): no entry, a file of size 0, a file with bytes
Images == { "none", "empty", "file" }

\* undefined / null; a text is a sequence of single characters, so this is
\* not a text
Nothing == << "null" >>

\* body.f, formData.get(f)
Field(body, f) == IF f \in DOMAIN body THEN body[f] ELSE Nothing

\* !value, for undefined, null and strings
Falsy(value) == value = Nothing \/ value = <<>>

\* parseFloat on a string of decimal digits
DigitValue ==
    [c \in { "0", "1", "2", "3", "4", "5", "6", "7", "8", "9" } |->
        CASE c = "0" -> 0 [] c = "1" -> 1 [] c = "2" -> 2 [] c = "3" -> 3
          [] c = "4" -> 4 [] c = "5" -> 5 [] c = "6" -> 6 [] c = "7" -> 7
          [] c = "8" -> 8 [] c = "9" -> 9]

RECURSIVE ParseFloat(_)
ParseFloat(text) ==
    IF Len(text) = 1 THEN DigitValue[text[1]]
    ELSE 10 * ParseFloat(SubSeq(text, 1, Len(text) - 1))
             + DigitValue[text[Len(text)]]

\* `images/${uuidv4()}.${fileExt}` (lines 60-62); the n-th request draws
\* uuid n
ImagePath(uuid) == << "images/", uuid >>

\* getPublicUrl(imagePath).data.publicUrl (lines 85-89)
PublicUrl(imagePath) == << "public/" >> \o imagePath

NoPath == <<>>

\* the row of the JSON branch (lines 19-28); a column that is not given
\* is not part of the row
JsonRow(body) ==
    [k \in (DOMAIN body \cap Fields) \cup { "has_image" } |->
        IF k = "has_image" THEN FALSE ELSE body[k]]

\* the row of the multipart branch (lines 96-105)
FormRow(body, image, imagePath) ==
    [message |-> body.message,
     receiver |-> body.receiver,
     latitude |-> ParseFloat(body.latitude),
     longitude |-> ParseFloat(body.longitude),
     image_path |-> imagePath,
     image_url |-> IF imagePath = NoPath THEN NoPath ELSE PublicUrl(imagePath),
     has_image |-> image # "none"]

\* NextResponse.json(...) returned: the invocation is over
Return(status, error) ==
    /\ response' = [status |-> status, error |-> error]
    /\ post' = [post EXCEPT !.pc = "done"]

\* the request arrives and POST runs up to its first store call
\* (lines 7-16 and 40-66)
Post(multipart, body, image) ==
    /\ post.pc \in { "idle", "done" }
    /\ postCount < MaxPosts
    /\ postCount' = postCount + 1
    /\ UNCHANGED << messages, blobs >>
    /\ IF ~multipart
       THEN /\ post' = [pc |-> "insert", multipart |-> FALSE, body |-> body,
                        image |-> "none", imagePath |-> NoPath]
            /\ UNCHANGED response
       ELSE IF \E f \in Fields : Falsy(Field(body, f))
       THEN /\ post' = [pc |-> "done", multipart |-> TRUE, body |-> body,
                        image |-> image, imagePath |-> NoPath]
            /\ response' = [status |-> 400,
                            error |-> "Missing required fields"]
       ELSE IF image = "file"
       THEN /\ post' = [pc |-> "upload", multipart |-> TRUE, body |-> body,
                        image |-> image,
                        imagePath |-> ImagePath(postCount + 1)]
            /\ UNCHANGED response
       ELSE /\ post' = [pc |-> "insert", multipart |-> TRUE, body |-> body,
                        image |-> image, imagePath |-> NoPath]
            /\ UNCHANGED response

UploadSettlesIgnoresError(ok) ==
    /\ post.pc = "upload"
    /\ UNCHANGED << messages, postCount >>
    /\ blobs' = IF ok THEN blobs \cup { post.imagePath } ELSE blobs
    /\ post' = [post EXCEPT !.pc = "insert"]
    /\ UNCHANGED response

\* storage.from('images').upload(...) settles (lines 68-90)
UploadSettles(ok) ==
    /\ post.pc = "upload"
    /\ UNCHANGED << messages, postCount >>
    /\ IF ok
       THEN /\ blobs' = blobs \cup { post.imagePath }
            /\ post' = [post EXCEPT !.pc = "insert"]
            /\ UNCHANGED response
       ELSE /\ Return(500, "Failed to upload image")
            /\ UNCHANGED blobs

\* from('messages').insert([...]).select() settles (lines 17-36, 93-118)
InsertSettles(ok) ==
    /\ post.pc = "insert"
    /\ UNCHANGED << blobs, postCount >>
    /\ IF ok
       THEN /\ messages' =
                Append(messages,
                       IF post.multipart
                       THEN FormRow(post.body, post.image, post.imagePath)
                       ELSE JsonRow(post.body))
            /\ Return(200, "")
       ELSE /\ UNCHANGED messages
            /\ IF post.multipart /\ post.imagePath # NoPath
               THEN /\ post' = [post EXCEPT !.pc = "remove"]
                    /\ UNCHANGED response
               ELSE Return(500, "error.message")

RemoveImageNever(imagePath) == blobs' = blobs

\* storage.from('images').remove([imagePath]) (line 112)
RemoveImage(imagePath) == blobs' = blobs \ { imagePath }

\* the clean-up settles and the insert error is returned (lines 112-115)
RemoveSettles ==
    /\ post.pc = "remove"
    /\ RemoveImage(post.imagePath)
    /\ Return(500, "error.message")
    /\ UNCHANGED << messages, postCount >>

PostArrives ==
    /\ \E multipart \in BOOLEAN, body \in Bodies, image \in Images :
           /\ (~multipart => image = "none")
           /\ Post(multipart, body, image)
    /\ UNCHANGED << locationSearchVars, displayVars, routeVars, mapVars >>

UploadAnswers ==
    /\ \E ok \in BOOLEAN : UploadSettles(ok)
    /\ UNCHANGED << locationSearchVars, displayVars, routeVars, mapVars >>

InsertAnswers ==
    /\ \E ok \in BOOLEAN : InsertSettles(ok)
    /\ UNCHANGED << locationSearchVars, displayVars, routeVars, mapVars >>

RemoveAnswers ==
    /\ RemoveSettles
    /\ UNCHANGED << locationSearchVars, displayVars, routeVars, mapVars >>

SubmitNext ==
    \/ PostArrives
    \/ UploadAnswers
    \/ InsertAnswers
    \/ RemoveAnswers

SpecSubmit == Init /\ [][SubmitNext]_vars

C16_MissingFieldRejected ==
    [][ ( /\ post'.pc = "done"
          /\ post.pc # "done" \/ postCount' # postCount
          /\ \E f \in Fields :
                f \notin DOMAIN post'.body \/ post'.body[f] = <<>> ) =>
            /\ response'.status = 400
            /\ messages' = messages ]_vars

\* C31: when the upload of the image fails, the invocation returns an error
\* and adds no row to table 'messages'.
C31_UploadFailureAborts ==
    [][ UploadSettles(FALSE) =>
            /\ post'.pc = "done"
            /\ response'.status >= 400
            /\ response'.error # ""
            /\ messages' = messages ]_vars

\* an invocation with an image has returned the upload error, and the
\* table has no row
C31_Witness ==
    /\ post.pc = "done"
    /\ post.image = "file"
    /\ response = [status |-> 500, error |-> "Failed to upload image"]
    /\ messages = <<>>
    /\ blobs = {}

\* C32: in every row POST has inserted, has_image is true exactly when
\* image_path and image_url are not null.
C32_HasImageIffStored ==
    \A k \in 1..Len(messages) :
        messages[k].has_image <=>
            /\ "image_path" \in DOMAIN messages[k]
            /\ messages[k].image_path # NoPath
            /\ "image_url" \in DOMAIN messages[k]
            /\ messages[k].image_url # NoPath

\* ================================================================
\* GET /api/search (api/search/route.ts lines 1-20)
\* ================================================================

\* receiver columns of the stored rows
Receivers ==
    { <<"A", "l", "i", "c", "e", " ", "S", "m", "i", "t", "h">>,
      <<"A", "l", "i">>, <<"a", "l", "i">>, <<"b">> }

\* the table as a search finds it: up to two rows, the k-th with id k
StoredCollections ==
    { <<>> } \cup { << [id |-> 1, receiver |-> r] >> : r \in Receivers }
             \cup { << [id |-> 1, receiver |-> r], [id |-> 2, receiver |-> q] >> :
                        r \in Receivers, q \in Receivers }

\* req.nextUrl.searchParams.get('receiver'): null when the parameter is not
\* there, else its text
SearchParams ==
    { Nothing, <<>>, <<"a", "l", "i">>, <<"A", "L", "I">>,
      <<"a", "%">>, <<"A", "%">>, <<"b">> }

\* lower(c) as ILIKE folds case, on the letters used here
LowerChar(c) ==
    CASE c = "A" -> "a" [] c = "B" -> "b" [] c = "I" -> "i"
      [] c = "L" -> "l" [] c = "S" -> "s" [] OTHER -> c

Lower(text) == [k \in 1..Len(text) |-> LowerChar(text[k])]

\* text LIKE pattern: % (and PostgREST's *) is any run of characters, _ is
\* any one character, every other character is itself
RECURSIVE Like(_, _)
Like(text, pattern) ==
    IF pattern = <<>> THEN text = <<>>
    ELSE IF Head(pattern) \in { "%", "*" }
    THEN \/ Like(text, Tail(pattern))
         \/ text # <<>> /\ Like(Tail(text), pattern)
    ELSE /\ text # <<>>
         /\ Head(pattern) = "_" \/ Head(pattern) = Head(text)
         /\ Like(Tail(text), Tail(pattern))

ILikeCaseSensitive(text, pattern) == Like(text, pattern)

\* text ILIKE pattern
ILike(text, pattern) == Like(Lower(text), Lower(pattern))

\* from('messages').select('*').filter('receiver', 'ilike', search)
\* (lines 11-14); a row without receiver has NULL there and matches nothing
SelectILike(rows, search) ==
    SelectSeq(rows, LAMBDA row : /\ "receiver" \in DOMAIN row
                                 /\ ILike(row.receiver, search))

MissingReceiverNullOnly(search) == search = Nothing

\* !search (line 7)
MissingReceiver(search) == Falsy(search)

\* the request arrives and GET runs up to the store call (lines 4-14)
Get(search) ==
    /\ get.pc \in { "idle", "done" }
    /\ IF MissingReceiver(search)
       THEN /\ get' = [pc |-> "done", search |-> search]
            /\ getResponse' = [status |-> 400, data |-> <<>>]
       ELSE /\ get' = [pc |-> "select", search |-> search]
            /\ UNCHANGED getResponse
    /\ UNCHANGED served

\* the store call settles (lines 14-19)
SelectSettles(ok) ==
    /\ get.pc = "select"
    /\ get' = [get EXCEPT !.pc = "done"]
    /\ IF ok
       THEN LET data == SelectILike(messages, get.search)
            IN  /\ getResponse' = [status |-> 200, data |-> data]
                /\ served' = served \cup { [search |-> get.search,
                                            data |-> data] }
       ELSE /\ getResponse' = [status |-> 500, data |-> <<>>]
            /\ UNCHANGED served

\* some table, no search request yet
SearchInit ==
    /\ LocationSearchInit
    /\ DisplayIdle
    /\ messages \in StoredCollections
    /\ blobs = {}
    /\ post = [pc |-> "idle"]
    /\ response = [status |-> 0, error |-> ""]
    /\ postCount = 0
    /\ RouteInit
    /\ MapIdle

GetArrives ==
    /\ \E search \in SearchParams : Get(search)
    /\ UNCHANGED << locationSearchVars, displayVars, submitVars, mapVars >>

SelectAnswers ==
    /\ \E ok \in BOOLEAN : SelectSettles(ok)
    /\ UNCHANGED << locationSearchVars, displayVars, submitVars, mapVars >>

SearchNext ==
    \/ GetArrives
    \/ SelectAnswers

SpecSearch == SearchInit /\ [][SearchNext]_vars

\* the rows of a response body, as a set
RowsOf(data) == { data[k] : k \in 1..Len(data) }

Upper(text) ==
    [k \in 1..Len(text) |->
        CASE text[k] = "a" -> "A" [] text[k] = "b" -> "B"
          [] text[k] = "i" -> "I" [] text[k] = "l" -> "L"
          [] text[k] = "s" -> "S" [] OTHER -> text[k]]

\* C17: two searches of the same table, one with a string in upper case and
\* one with the same string in lower case, return the same set of rows.
C17_CaseInsensitive ==
    \A x \in served, y \in served :
        (x.search = Upper(y.search) /\ y.search = Lower(x.search)) =>
            RowsOf(x.data) = RowsOf(y.data)

\* "ALI" and "ali" have both been answered with the row of "Ali"
C17_Witness ==
    /\ messages = << [id |-> 1, receiver |-> <<"A", "l", "i">>] >>
    /\ [search |-> <<"A", "L", "I">>, data |-> messages] \in served
    /\ [search |-> <<"a", "l", "i">>, data |-> messages] \in served

\* sub occurs in text, letters compared without regard to case
ContainsIgnoringCase(text, sub) ==
    \E i \in 1..(Len(text) + 1), j \in 0..Len(text) :
        Lower(SubSeq(text, i, j)) = Lower(sub)

\* C18: a 200 response carries exactly the rows whose receiver contains the
\* search string as a substring, ignoring case.
C18_SubstringMatch ==
    \A x \in served :
        RowsOf(x.data) =
            { messages[k] : k \in { n \in 1..Len(messages) :
                  ContainsIgnoringCase(messages[n].receiver, x.search) } }

\* C19: a request without receiver, or with an empty one, is answered 400
\* at once: the invocation is over and no store call is awaited.
C19_MissingReceiver400 ==
    [][ \A search \in { Nothing, <<>> } :
            Get(search) => /\ getResponse'.status = 400
                           /\ get'.pc = "done" ]_vars

\* ?receiver= has been answered 400 after an earlier search was served
C19_Witness ==
    /\ get = [pc |-> "done", search |-> <<>>]
    /\ getResponse.status = 400
    /\ served # {}


\* ================================================================
\* the map view: MemoryMap (panel.tsx) and its Panel (layout.tsx)
\* ================================================================

\* the table when the page is opened
InitialTable == << [id |-> 1, receiver |-> <<"a">>] >>

\* what is typed into the Panel's search box
QueryTexts == { <<>>, <<"a">> }

\* what is typed into the form's receiver field
PinReceivers == { <<" ">>, <<"A">> }

\* the place the search box hands to onTempMarker
MarkerPlaces == { <<1, 2>> }

\* what is typed into the form's message field
PinMessages == { <<" ">>, <<"h">> }

\* the form as useState creates it (layout.tsx lines 149-153); "null" is
\* no file, "original" the file picked and "compressed" what compressImage
\* made of it
EmptyForm == [message |-> <<>>, receiver |-> <<>>, image |-> "null"]

\* what the effect of the Panel (layout.tsx lines 160-167) makes of
\* pinFormData (panel.tsx lines 543-546): the strings toFixed(6) gives are
\* never empty, so the effect sets the marker location after every render
\* of MemoryMap; this is pinLocation as useState creates it (panel.tsx line
\* 316), in hundredths of a degree
PinFormLocation == << -10359, 4067 >>

\* formatFeatures (panel.tsx lines 288-302): id is `msg${msg.id}`
FormatFeatures(data) ==
    [k \in 1..Len(data) |->
        [id |-> << "msg", data[k].id >>, receiver |-> data[k].receiver]]

\* the ids of a list of features
IdsOf(features) == { features[k].id : k \in 1..Len(features) }

\* what no handler of the map view touches
outsideMap == << locationSearchVars, displayVars, routeVars,
                 blobs, post, response, postCount >>

\* the page is open: first render done and the mount effect has run up to
\* its fetch (panel.tsx lines 307-323)
MapInit ==
    /\ LocationSearchInit
    /\ DisplayIdle
    /\ RouteInit
    /\ messages = InitialTable
    /\ blobs = {}
    /\ post = [pc |-> "idle"]
    /\ response = [status |-> 0, error |-> ""]
    /\ postCount = 0
    /\ geojsonData = <<>>
    /\ selectedFeature = <<>>
    /\ matchedFeatures = <<>>
    /\ isLoading = TRUE
    /\ pinMode = FALSE
    /\ searchQuery = <<>>
    /\ tempMarker = <<>>
    /\ showForm = FALSE
    /\ isSubmitting = FALSE
    /\ loadCall = [stage |-> "request"]
    /\ searchCall = [stage |-> "none"]
    /\ createCall = [stage |-> "none"]
    /\ formData = EmptyForm
    /\ markerLocation = PinFormLocation
    /\ errorMessage = ""
    /\ imagePreview = FALSE
    /\ imageCall = [stage |-> "none"]

\* GET /api/messages answers with the table, or fails
ServeLoad(ok) ==
    /\ loadCall.stage = "request"
    /\ loadCall' = [stage |-> "response", ok |-> ok,
                    data |-> IF ok THEN messages ELSE <<>>]
    /\ UNCHANGED << messages, geojsonData, selectedFeature, matchedFeatures,
                    isLoading, pinMode, searchQuery, tempMarker, showForm,
                    isSubmitting, searchCall, createCall >>
    /\ UNCHANGED formVars

\* the then / catch / finally of the mount effect (panel.tsx lines 324-334)
LoadResponse ==
    /\ loadCall.stage = "response"
    /\ loadCall' = [stage |-> "done"]
    /\ geojsonData' = IF loadCall.ok THEN FormatFeatures(loadCall.data)
                      ELSE geojsonData
    /\ isLoading' = FALSE
    /\ UNCHANGED << messages, selectedFeature, matchedFeatures, pinMode,
                    searchQuery, tempMarker, showForm, isSubmitting,
                    searchCall, createCall >>
    /\ UNCHANGED formVars

\* onSearchQueryChange = setSearchQuery, from the Panel's search box
\* (layout.tsx lines 372-378), which is rendered when the form is not
SetSearchQuery(text) ==
    /\ ~showForm
    /\ searchQuery' = text
    /\ UNCHANGED << messages, geojsonData, selectedFeature, matchedFeatures,
                    isLoading, pinMode, tempMarker, showForm, isSubmitting,
                    loadCall, searchCall, createCall >>
    /\ UNCHANGED formVars

\* handleSearch up to its await (panel.tsx lines 379-397), called by the
\* search button with the current query; the button is disabled while
\* isLoading (layout.tsx lines 379-381)
HandleSearch(receiver) ==
    /\ ~showForm
    /\ ~isLoading
    /\ receiver = searchQuery
    /\ searchQuery' = receiver
    /\ tempMarker' = <<>>
    /\ IF receiver = <<>>
       THEN /\ matchedFeatures' = <<>>
            /\ UNCHANGED << isLoading, searchCall >>
       ELSE /\ isLoading' = TRUE
            /\ searchCall' = [stage |-> "request", receiver |-> receiver,
                              features |-> geojsonData]
            /\ UNCHANGED matchedFeatures
    /\ UNCHANGED << messages, geojsonData, selectedFeature, pinMode, showForm,
                    isSubmitting, loadCall, createCall >>
    /\ UNCHANGED formVars

\* GET /api/search answers with the rows ilike selects, or fails
ServeSearch(ok) ==
    /\ searchCall.stage = "request"
    /\ searchCall' =
           [stage |-> "response", receiver |-> searchCall.receiver,
            features |-> searchCall.features, ok |-> ok,
            data |-> IF ok THEN SelectILike(messages, searchCall.receiver)
                     ELSE <<>>]
    /\ UNCHANGED << messages, geojsonData, selectedFeature, matchedFeatures,
                    isLoading, pinMode, searchQuery, tempMarker, showForm,
                    isSubmitting, loadCall, createCall >>
    /\ UNCHANGED formVars

SearchResponseKeepsSelection ==
    /\ searchCall.stage = "response"
    /\ searchCall' = [stage |-> "done"]
    /\ isLoading' = FALSE
    /\ IF searchCall.ok
       THEN LET receiver == searchCall.receiver
                features == searchCall.features
                localMatches ==
                    SelectSeq(features,
                              LAMBDA f : Lower(f.receiver) = Lower(receiver))
                serverMatches == FormatFeatures(searchCall.data)
                existingIds == IdsOf(features)
                newFeatures ==
                    SelectSeq(serverMatches, LAMBDA f : f.id \notin existingIds)
                seen == IdsOf(localMatches)
                allMatches ==
                    localMatches \o
                    SelectSeq(serverMatches, LAMBDA f : f.id \notin seen)
            IN  /\ geojsonData' = IF Len(newFeatures) > 0
                                  THEN geojsonData \o newFeatures
                                  ELSE geojsonData
                /\ matchedFeatures' = allMatches
                /\ UNCHANGED selectedFeature
       ELSE UNCHANGED << geojsonData, matchedFeatures, selectedFeature >>
    /\ UNCHANGED << messages, pinMode, searchQuery, tempMarker, showForm,
                    isSubmitting, loadCall, createCall >>
    /\ UNCHANGED formVars

\* handleSearch after its await (panel.tsx lines 398-429); features is
\* geojsonData.features of the render the handler was created in
SearchResponse ==
    /\ searchCall.stage = "response"
    /\ searchCall' = [stage |-> "done"]
    /\ isLoading' = FALSE
    /\ IF searchCall.ok
       THEN LET receiver == searchCall.receiver
                features == searchCall.features
                localMatches ==
                    SelectSeq(features,
                              LAMBDA f : Lower(f.receiver) = Lower(receiver))
                serverMatches == FormatFeatures(searchCall.data)
                existingIds == IdsOf(features)
                newFeatures ==
                    SelectSeq(serverMatches, LAMBDA f : f.id \notin existingIds)
                seen == IdsOf(localMatches)
                allMatches ==
                    localMatches \o
                    SelectSeq(serverMatches, LAMBDA f : f.id \notin seen)
            IN  /\ geojsonData' = IF Len(newFeatures) > 0
                                  THEN geojsonData \o newFeatures
                                  ELSE geojsonData
                /\ matchedFeatures' = allMatches
                /\ selectedFeature' = <<>>
       ELSE UNCHANGED << geojsonData, matchedFeatures, selectedFeature >>
    /\ UNCHANGED << messages, pinMode, searchQuery, tempMarker, showForm,
                    isSubmitting, loadCall, createCall >>
    /\ UNCHANGED formVars

OnClickKeepsMarker(clicked) ==
    /\ IF clicked = <<>>
       THEN /\ tempMarker' = <<>>
            /\ UNCHANGED << selectedFeature, matchedFeatures, searchQuery >>
       ELSE /\ selectedFeature' = clicked
            /\ matchedFeatures' = <<>>
            /\ searchQuery' = <<>>
            /\ UNCHANGED tempMarker
    /\ UNCHANGED << messages, geojsonData, isLoading, pinMode, showForm,
                    isSubmitting, loadCall, searchCall, createCall >>
    /\ UNCHANGED formVars

\* onClick on the map (panel.tsx lines 351-377): on no feature, or on a
\* leaf point
OnClick(clicked) ==
    /\ IF clicked = <<>>
       THEN /\ tempMarker' = <<>>
            /\ UNCHANGED << selectedFeature, matchedFeatures, searchQuery >>
       ELSE /\ selectedFeature' = clicked
            /\ matchedFeatures' = <<>>
            /\ searchQuery' = <<>>
            /\ tempMarker' = <<>>
    /\ UNCHANGED << messages, geojsonData, isLoading, pinMode, showForm,
                    isSubmitting, loadCall, searchCall, createCall >>
    /\ UNCHANGED formVars

\* handleZoomToFeature (panel.tsx lines 447-455), from a card of the Panel
HandleZoomToFeature(feature) ==
    /\ ~showForm
    /\ matchedFeatures' = <<>>
    /\ selectedFeature' = << feature >>
    /\ searchQuery' = <<>>
    /\ tempMarker' = <<>>
    /\ UNCHANGED << messages, geojsonData, isLoading, pinMode, showForm,
                    isSubmitting, loadCall, searchCall, createCall >>
    /\ UNCHANGED formVars

\* handleTempMarker (panel.tsx lines 476-478)
HandleTempMarker(lng, lat) ==
    /\ tempMarker' = << lng, lat >>
    /\ UNCHANGED << messages, geojsonData, selectedFeature, matchedFeatures,
                    isLoading, pinMode, searchQuery, showForm, isSubmitting,
                    loadCall, searchCall, createCall >>
    /\ UNCHANGED formVars

\* handlePinToggle (panel.tsx lines 457-466)
HandlePinToggle(show) ==
    /\ pinMode' = show
    /\ tempMarker' = <<>>

\* handleFormChange (layout.tsx lines 177-183); the fields are disabled
\* while isSubmitting (lines 418, 432)
HandleFormChange(name, value) ==
    /\ showForm
    /\ ~isSubmitting
    /\ formData' = [formData EXCEPT ![name] = value]
    /\ errorMessage' = ""
    /\ UNCHANGED << messages, geojsonData, selectedFeature, matchedFeatures,
                    isLoading, pinMode, searchQuery, tempMarker, showForm,
                    isSubmitting, loadCall, searchCall, createCall,
                    markerLocation, imagePreview, imageCall >>

\* handleImageChange up to its await, for a file that was picked
\* (layout.tsx lines 185-194); the file input is disabled while
\* isSubmitting (line 451)
HandleImageChange ==
    /\ showForm
    /\ ~isSubmitting
    /\ imageCall.stage = "none"
    /\ isSubmitting' = TRUE
    /\ imageCall' = [stage |-> "compress"]
    /\ UNCHANGED << messages, geojsonData, selectedFeature, matchedFeatures,
                    isLoading, pinMode, searchQuery, tempMarker, showForm,
                    loadCall, searchCall, createCall, formData,
                    markerLocation, errorMessage, imagePreview >>

ImageCompressedKeepsBusy(ok) ==
    /\ imageCall.stage = "compress"
    /\ imageCall' = [stage |-> "none"]
    /\ imagePreview' = TRUE
    /\ IF ok
       THEN /\ formData' = [formData EXCEPT !.image = "compressed"]
            /\ UNCHANGED errorMessage
       ELSE /\ errorMessage' = "Failed to process image"
            /\ formData' = [formData EXCEPT !.image = "original"]
    /\ UNCHANGED isSubmitting
    /\ UNCHANGED << messages, geojsonData, selectedFeature, matchedFeatures,
                    isLoading, pinMode, searchQuery, tempMarker, showForm,
                    loadCall, searchCall, createCall, markerLocation >>

\* handleImageChange after its await (layout.tsx lines 194-221):
\* compressImage gave the compressed file, or threw; the FileReader's load
\* event, which sets the preview, is taken with it
ImageCompressed(ok) ==
    /\ imageCall.stage = "compress"
    /\ imageCall' = [stage |-> "none"]
    /\ imagePreview' = TRUE
    /\ IF ok
       THEN /\ formData' = [formData EXCEPT !.image = "compressed"]
            /\ UNCHANGED errorMessage
       ELSE /\ errorMessage' = "Failed to process image"
            /\ formData' = [formData EXCEPT !.image = "original"]
    /\ isSubmitting' = FALSE
    /\ UNCHANGED << messages, geojsonData, selectedFeature, matchedFeatures,
                    isLoading, pinMode, searchQuery, tempMarker, showForm,
                    loadCall, searchCall, createCall, markerLocation >>

\* the button under the preview (layout.tsx lines 460-469), which is
\* rendered while there is a preview
HandleRemoveImage ==
    /\ showForm
    /\ imagePreview
    /\ formData' = [formData EXCEPT !.image = "null"]
    /\ imagePreview' = FALSE
    /\ UNCHANGED << messages, geojsonData, selectedFeature, matchedFeatures,
                    isLoading, pinMode, searchQuery, tempMarker, showForm,
                    isSubmitting, loadCall, searchCall, createCall,
                    markerLocation, errorMessage, imageCall >>

HandleToggleFormWhileBusy ==
    /\ showForm' = ~showForm
    /\ HandlePinToggle(~showForm)
    /\ IF showForm
       THEN /\ formData' = EmptyForm
            /\ imagePreview' = FALSE
            /\ errorMessage' = ""
       ELSE UNCHANGED << formData, imagePreview, errorMessage >>
    /\ UNCHANGED << messages, geojsonData, selectedFeature, matchedFeatures,
                    isLoading, searchQuery, isSubmitting, loadCall,
                    searchCall, createCall, markerLocation, imageCall >>

\* handleToggleForm (layout.tsx lines 353-363); its button is disabled
\* while isSubmitting (line 503)
HandleToggleForm ==
    /\ ~isSubmitting
    /\ showForm' = ~showForm
    /\ HandlePinToggle(~showForm)
    /\ IF showForm
       THEN /\ formData' = EmptyForm
            /\ imagePreview' = FALSE
            /\ errorMessage' = ""
       ELSE UNCHANGED << formData, imagePreview, errorMessage >>
    /\ UNCHANGED << messages, geojsonData, selectedFeature, matchedFeatures,
                    isLoading, searchQuery, isSubmitting, loadCall,
                    searchCall, createCall, markerLocation, imageCall >>

HandleSubmitUnchecked ==
    /\ showForm
    /\ ~isSubmitting
    /\ Len(messages) < Len(InitialTable) + MaxPins
    /\ errorMessage' = ""
    /\ isSubmitting' = TRUE
    /\ createCall' = [stage |-> "request", receiver |-> formData.receiver]
    /\ UNCHANGED << messages, geojsonData, selectedFeature, matchedFeatures,
                    isLoading, pinMode, searchQuery, tempMarker, showForm,
                    loadCall, searchCall, formData, markerLocation,
                    imagePreview, imageCall >>

\* handleSubmit up to its await (layout.tsx lines 225-255); the submit
\* button is disabled while isSubmitting (line 489)
HandleSubmit ==
    /\ showForm
    /\ ~isSubmitting
    /\ IF markerLocation = <<>>
       THEN /\ errorMessage' =
                   "Please drag the marker to a location on the map."
            /\ UNCHANGED << isSubmitting, createCall >>
       ELSE IF Trim(formData.message) = <<>> \/ Trim(formData.receiver) = <<>>
       THEN /\ errorMessage' = "Please fill in all fields."
            /\ UNCHANGED << isSubmitting, createCall >>
       ELSE /\ Len(messages) < Len(InitialTable) + MaxPins
            /\ errorMessage' = ""
            /\ isSubmitting' = TRUE
            /\ createCall' = [stage |-> "request",
                              receiver |-> formData.receiver]
    /\ UNCHANGED << messages, geojsonData, selectedFeature, matchedFeatures,
                    isLoading, pinMode, searchQuery, tempMarker, showForm,
                    loadCall, searchCall, formData, markerLocation,
                    imagePreview, imageCall >>

\* POST /api/submit answers: the row is inserted and returned, or not
ServeCreate(ok) ==
    /\ createCall.stage = "request"
    /\ LET row == [id |-> Len(messages) + 1,
                   receiver |-> createCall.receiver]
       IN  /\ messages' = IF ok THEN Append(messages, row) ELSE messages
           /\ createCall' = [stage |-> "response", ok |-> ok, row |-> row]
    /\ UNCHANGED << geojsonData, selectedFeature, matchedFeatures, isLoading,
                    pinMode, searchQuery, tempMarker, showForm, isSubmitting,
                    loadCall, searchCall >>
    /\ UNCHANGED formVars

\* handleNewPin (panel.tsx lines 432-445)
HandleNewPin(feature) ==
    /\ geojsonData' = Append(geojsonData, feature)
    /\ matchedFeatures' = <<>>
    /\ selectedFeature' = << feature >>
    /\ searchQuery' = <<>>
    /\ tempMarker' = <<>>

CreateResponseSwapsReset ==
    /\ createCall.stage = "response"
    /\ createCall' = [stage |-> "done"]
    /\ isSubmitting' = FALSE
    /\ IF createCall.ok
       THEN /\ HandleNewPin([id |-> << "msg", createCall.row.id >>,
                             receiver |-> createCall.row.receiver])
            /\ UNCHANGED << formData, imagePreview >>
            /\ markerLocation' = PinFormLocation
            /\ showForm' = FALSE
            /\ HandlePinToggle(FALSE)
            /\ UNCHANGED errorMessage
       ELSE /\ errorMessage' = "Failed to pin memory"
            /\ formData' = EmptyForm
            /\ imagePreview' = FALSE
            /\ UNCHANGED << geojsonData, matchedFeatures, selectedFeature,
                            searchQuery, showForm, pinMode, tempMarker,
                            markerLocation >>
    /\ UNCHANGED << messages, isLoading, loadCall, searchCall, imageCall >>

\* handleSubmit after its await (layout.tsx lines 257-297): the response
\* carries the record, or the request failed (response not ok, no record
\* in it, or fetch threw), which sets the message of the error. On success
\* setMarkerLocation(null) is followed by the effect of lines 160-167,
\* since MemoryMap renders again with a new pinFormData
CreateResponse ==
    /\ createCall.stage = "response"
    /\ createCall' = [stage |-> "done"]
    /\ isSubmitting' = FALSE
    /\ IF createCall.ok
       THEN /\ HandleNewPin([id |-> << "msg", createCall.row.id >>,
                             receiver |-> createCall.row.receiver])
            /\ formData' = EmptyForm
            /\ imagePreview' = FALSE
            /\ markerLocation' = PinFormLocation
            /\ showForm' = FALSE
            /\ HandlePinToggle(FALSE)
            /\ UNCHANGED errorMessage
       ELSE /\ errorMessage' = "Failed to pin memory"
            /\ UNCHANGED << geojsonData, matchedFeatures, selectedFeature,
                            searchQuery, showForm, pinMode, tempMarker,
                            formData, imagePreview, markerLocation >>
    /\ UNCHANGED << messages, isLoading, loadCall, searchCall, imageCall >>

LoadServed ==
    /\ \E ok \in BOOLEAN : ServeLoad(ok)
    /\ UNCHANGED outsideMap

LoadSettles ==
    /\ LoadResponse
    /\ UNCHANGED outsideMap

QueryChange ==
    /\ \E text \in QueryTexts : SetSearchQuery(text)
    /\ UNCHANGED outsideMap

SearchClick ==
    /\ HandleSearch(searchQuery)
    /\ UNCHANGED outsideMap

SearchServed ==
    /\ \E ok \in BOOLEAN : ServeSearch(ok)
    /\ UNCHANGED outsideMap

SearchSettles ==
    /\ SearchResponse
    /\ UNCHANGED outsideMap

MapClick ==
    /\ \E clicked \in { <<>> } \cup
                      { << geojsonData[k] >> : k \in 1..Len(geojsonData) } :
           OnClick(clicked)
    /\ UNCHANGED outsideMap

CardClick ==
    /\ \E feature \in IF Len(matchedFeatures) > 0
                      THEN { matchedFeatures[k] : k \in 1..Len(matchedFeatures) }
                      ELSE { selectedFeature[k] : k \in 1..Len(selectedFeature) } :
           HandleZoomToFeature(feature)
    /\ UNCHANGED outsideMap

TempMarker ==
    /\ \E place \in MarkerPlaces : HandleTempMarker(place[1], place[2])
    /\ UNCHANGED outsideMap

ToggleForm ==
    /\ HandleToggleForm
    /\ UNCHANGED outsideMap

FormChange ==
    /\ \/ \E value \in PinMessages : HandleFormChange("message", value)
       \/ \E value \in PinReceivers : HandleFormChange("receiver", value)
    /\ UNCHANGED outsideMap

ImageChange ==
    /\ HandleImageChange
    /\ UNCHANGED outsideMap

ImageSettles ==
    /\ \E ok \in BOOLEAN : ImageCompressed(ok)
    /\ UNCHANGED outsideMap

RemoveImageClick ==
    /\ HandleRemoveImage
    /\ UNCHANGED outsideMap

\* the browser submits the form when its required fields (layout.tsx lines
\* 416, 429) are filled in
Submit ==
    /\ formData.message # <<>>
    /\ formData.receiver # <<>>
    /\ HandleSubmit
    /\ UNCHANGED outsideMap

CreateServed ==
    /\ \E ok \in BOOLEAN : ServeCreate(ok)
    /\ UNCHANGED outsideMap

CreateSettles ==
    /\ CreateResponse
    /\ UNCHANGED outsideMap

MapNext ==
    \/ LoadServed
    \/ LoadSettles
    \/ QueryChange
    \/ SearchClick
    \/ SearchServed
    \/ SearchSettles
    \/ MapClick
    \/ CardClick
    \/ TempMarker
    \/ ToggleForm
    \/ FormChange
    \/ ImageChange
    \/ ImageSettles
    \/ RemoveImageClick
    \/ Submit
    \/ CreateServed
    \/ CreateSettles

SpecMap == MapInit /\ [][MapNext]_vars

\* C20: the features of the map's collection have pairwise different ids.
C20_UniqueFeatureIds ==
    \A i \in 1..Len(geojsonData), j \in 1..Len(geojsonData) :
        geojsonData[i].id = geojsonData[j].id => i = j

\* C21: a click on a leaf point, a click on a card of the Panel and the
\* start of a recipient search each leave no temporary marker and no
\* pin-placement marker (which is rendered exactly while pinMode).
C21_MarkersCleared ==
    [][ ( \/ \E k \in 1..Len(geojsonData) : OnClick(<< geojsonData[k] >>)
          \/ \E k \in 1..Len(matchedFeatures) :
                 HandleZoomToFeature(matchedFeatures[k])
          \/ \E k \in 1..Len(selectedFeature) :
                 HandleZoomToFeature(selectedFeature[k])
          \/ HandleSearch(searchQuery) ) =>
            /\ tempMarker' = <<>>
            /\ ~pinMode' ]_vars

\* C21, amended: the same steps leave no temporary marker, and leave no
\* pin-placement marker unless the pin form is open; the temporary marker
\* is one place or none.
C21_MarkersClearedUnlessForm ==
    [][ ( \/ \E k \in 1..Len(geojsonData) : OnClick(<< geojsonData[k] >>)
          \/ \E k \in 1..Len(matchedFeatures) :
                 HandleZoomToFeature(matchedFeatures[k])
          \/ \E k \in 1..Len(selectedFeature) :
                 HandleZoomToFeature(selectedFeature[k])
          \/ HandleSearch(searchQuery) ) =>
            /\ tempMarker' = <<>>
            /\ ~showForm' => ~pinMode' ]_vars

\* a leaf point has been clicked while the form is open: its feature is
\* selected, the pin-placement marker is still there
C21_Witness ==
    /\ showForm /\ pinMode
    /\ Len(geojsonData) > 0
    /\ selectedFeature = << geojsonData[1] >>
    /\ tempMarker = <<>>
    /\ createCall.stage = "none"

\* C25: when the search request has failed, handling the failure leaves the
\* matched-results list empty and the collection as it was, and clears the
\* loading flag.
C25_FailedSearchYieldsNothing ==
    [][ ( /\ searchCall.stage = "response"
          /\ ~searchCall.ok
          /\ SearchResponse ) =>
            /\ matchedFeatures' = <<>>
            /\ geojsonData' = geojsonData
            /\ ~isLoading' ]_vars

\* C26: handling a search response keeps every feature of the collection
\* where and as it was, and what it appends are features whose ids the
\* collection did not have.
C26_GrowsByNewIdsOnly ==
    [][ SearchResponse =>
            /\ Len(geojsonData') >= Len(geojsonData)
            /\ SubSeq(geojsonData', 1, Len(geojsonData)) = geojsonData
            /\ \A k \in (Len(geojsonData) + 1)..Len(geojsonData') :
                   geojsonData'[k].id \notin IdsOf(geojsonData) ]_vars

\* C27: a submit of the pin form without a marker location, or with a
\* message or a receiver that is blank, sends no create request, sets an
\* error message, and leaves the form open with its data and the
\* submitting flag false.
C27_InvalidFormNotSent ==
    [][ ( /\ HandleSubmit
          /\ \/ markerLocation = <<>>
             \/ IsBlank(formData.message)
             \/ IsBlank(formData.receiver) ) =>
            /\ createCall' = createCall
            /\ errorMessage' # ""
            /\ showForm'
            /\ formData' = formData
            /\ ~isSubmitting' ]_vars

\* a form with a blank message was submitted and refused
C27_Witness ==
    /\ showForm
    /\ formData.message = <<" ">>
    /\ formData.receiver = <<"A">>
    /\ errorMessage = "Please fill in all fields."
    /\ ~isSubmitting
    /\ createCall.stage = "none"

\* C28: when the create request of the pin form fails, no feature is
\* appended to the map's collection, the form stays open with its message,
\* receiver and image as entered, an error message is set and the
\* submitting flag is false again.
C28_FailedCreateKeepsForm ==
    [][ (createCall.stage = "response" /\ ~createCall.ok /\ CreateResponse) =>
            /\ geojsonData' = geojsonData
            /\ showForm'
            /\ formData' = formData
            /\ errorMessage' # ""
            /\ ~isSubmitting' ]_vars

\* a form with a message, a receiver and an image was submitted and the
\* request failed
C28_Witness ==
    /\ createCall.stage = "done"
    /\ showForm
    /\ formData = [message |-> <<"h">>, receiver |-> <<"A">>,
                   image |-> "compressed"]
    /\ errorMessage = "Failed to pin memory"
    /\ ~isSubmitting
    /\ Len(geojsonData) = Len(InitialTable)

\* C29: when the create request of the pin form succeeds, one feature with
\* the id of the returned record is appended to the map's collection and
\* becomes the selected feature, the matched features and the recipient
\* query are cleared, the temporary marker is removed, pin mode is off and
\* the form's message, receiver and image are reset.
C29_CreatedPinShown ==
    [][ (createCall.stage = "response" /\ createCall.ok /\ CreateResponse) =>
            /\ Len(geojsonData') = Len(geojsonData) + 1
            /\ SubSeq(geojsonData', 1, Len(geojsonData)) = geojsonData
            /\ geojsonData'[Len(geojsonData')].id =
                   << "msg", createCall.row.id >>
            /\ selectedFeature' = << geojsonData'[Len(geojsonData')] >>
            /\ matchedFeatures' = <<>>
            /\ searchQuery' = <<>>
            /\ tempMarker' = <<>>
            /\ ~pinMode'
            /\ formData'.message = <<>>
            /\ formData'.receiver = <<>>
            /\ formData'.image = "null" ]_vars

\* a pin was created and is the selected feature
C29_Witness ==
    /\ createCall.stage = "done"
    /\ Len(messages) = Len(InitialTable) + 1
    /\ Len(geojsonData) = Len(InitialTable) + 1
    /\ selectedFeature = << geojsonData[Len(geojsonData)] >>
    /\ geojsonData[Len(geojsonData)].id = << "msg", Len(messages) >>
    /\ ~showForm
    /\ ~pinMode

\* C30: when compressImage fails, the form's image is the file that was
\* picked and the submitting flag is false again; when it succeeds, the
\* form's image is the compressed file.
C30_ImageFallback ==
    [][ /\ ImageCompressed(FALSE) =>
               /\ formData'.image = "original"
               /\ ~isSubmitting'
               /\ showForm'
        /\ ImageCompressed(TRUE) => formData'.image = "compressed" ]_vars

\* the image could not be compressed and the form holds the file picked
C30_Witness ==
    /\ showForm
    /\ formData.image = "original"
    /\ errorMessage = "Failed to process image"
    /\ ~isSubmitting
    /\ imageCall.stage = "none"

\* C34: in every state, no feature is selected or the list of matched
\* features is empty.
C34_SelectedOrMatched ==
    selectedFeature = <<>> \/ matchedFeatures = <<>>

\* a pin was created and selected, and a later search has filled the list
\* of matched features
C34_Witness ==
    /\ createCall.stage = "done"
    /\ Len(geojsonData) > Len(InitialTable)
    /\ searchCall.stage = "done"
    /\ matchedFeatures # <<>>
    /\ selectedFeature = <<>>

\* C35: the matched features have pairwise different ids, and each of them
\* is a feature of the map's collection.
C35_MatchesUniqueAndHeld ==
    /\ \A i \in 1..Len(matchedFeatures), j \in 1..Len(matchedFeatures) :
           matchedFeatures[i].id = matchedFeatures[j].id => i = j
    /\ \A i \in 1..Len(matchedFeatures) :
           \E k \in 1..Len(geojsonData) : geojsonData[k] = matchedFeatures[i]

\* C36: while a create request or compressImage is outstanding the
\* submitting flag is true, and while the flag is true no create request is
\* issued and the form is not closed, except by the successful end of the
\* create request itself.
C36_OneCreateInFlight ==
    /\ [](( \/ createCall.stage \in { "request", "response" }
            \/ imageCall.stage = "compress" ) => isSubmitting)
    /\ [][ isSubmitting =>
               /\ ~(createCall'.stage = "request" /\ createCall' # createCall)
               /\ showForm' = showForm
                      \/ (createCall.stage = "response" /\ createCall.ok)
               /\ showForm ]_vars

\* a create request is in flight and the form is open
C36_Witness ==
    /\ isSubmitting
    /\ createCall.stage = "request"
    /\ imageCall.stage = "none"
    /\ showForm
    /\ formData.image = "compressed"

====
